---------------------------- MODULE Spec2Model ----------------------------
(***************************************************************************)
(* A model of the tsunami-simulation repository:                           *)
(*   - the WaveSimulation component (src/components/WaveSimulation.tsx):   *)
(*     its seabed profile, its propagation schedule, and the life cycle of *)
(*     its d3 timers and transitions under React's effect / cleanup rule;  *)
(*   - the host App (src/App.tsx) and the service conversions of           *)
(*     src/services/geminiService.ts that feed slope, intensity and depth. *)
(*                                                                         *)
(* Numbers.  The source computes in floating point with one square root    *)
(* (Math.sqrt(depth / 40)).  The model computes exactly: a number is       *)
(* (a + b * sqrt(r)) / d with integers a, b, d (d > 0) and a square-free   *)
(* radicand r (r = 1 when b = 0), kept in lowest terms.  Depth is held in  *)
(* whole metres, visualGain in tenths (5 .. 30 for 0.5 .. 3.0).            *)
(***************************************************************************)
EXTENDS Integers, Naturals, Sequences, FiniteSets, TLC

(***************************************************************************)
(* Exact arithmetic in Q(sqrt(r)).                                         *)
(***************************************************************************)
Abs(n) == IF n < 0 THEN -n ELSE n

RECURSIVE Gcd(_, _)
Gcd(m, n) == IF n = 0 THEN Abs(m) ELSE Gcd(Abs(n), Abs(m) % Abs(n))

\* The largest s with s * s dividing n (n > 0), searched downwards from k.
RECURSIVE SquarePart(_, _)
SquarePart(n, k) == IF k <= 1 THEN 1
                    ELSE IF n % (k * k) = 0 THEN k
                    ELSE SquarePart(n, k - 1)

\* The integer square root bound used to start SquarePart: least k, k*k >= n.
RECURSIVE RootCeil(_, _)
RootCeil(n, k) == IF k * k >= n THEN k ELSE RootCeil(n, k + 1)

\* (a + b * sqrt(r)) / d in lowest terms, d > 0, r = 1 when b = 0.
Norm(a, b, r, d) ==
    LET g0 == Gcd(Gcd(a, b), d)
        g  == IF d < 0 THEN -g0 ELSE g0
    IN  [a |-> a \div g, b |-> b \div g,
         r |-> IF b = 0 THEN 1 ELSE r, d |-> d \div g]

Rat(p, q) == Norm(p, 0, 1, q)
Num(n) == Rat(n, 1)

\* The radicand two operands share (a rational operand has none).
Rad(x, y) == IF x.b # 0 THEN x.r ELSE y.r

Add(x, y) ==
    LET l == (x.d \div Gcd(x.d, y.d)) * y.d
    IN  Norm(x.a * (l \div x.d) + y.a * (l \div y.d),
             x.b * (l \div x.d) + y.b * (l \div y.d), Rad(x, y), l)

Neg(x) == [x EXCEPT !.a = -x.a, !.b = -x.b]
Sub(x, y) == Add(x, Neg(y))

Mul(x, y) ==
    LET r  == Rad(x, y)
        g1 == Gcd(Gcd(x.a, x.b), y.d)
        g2 == Gcd(Gcd(y.a, y.b), x.d)
        xa == x.a \div g1
        xb == x.b \div g1
        ya == y.a \div g2
        yb == y.b \div g2
    IN  Norm(xa * ya + xb * yb * r, xa * yb + xb * ya, r,
             (x.d \div g2) * (y.d \div g1))

\* 1 / x for x # 0: with g = gcd(a, b), a = g a1, b = g b1,
\* 1 / x = d * (a1 - b1 sqrt r) / (g * (a1^2 - b1^2 r)).
Inv(x) == LET g == Gcd(x.a, x.b)
              a == x.a \div g
              b == x.b \div g
          IN  Norm(x.d * a, -(x.d * b), x.r, g * (a * a - b * b * x.r))

Div(x, y) == Mul(x, Inv(y))

\* Comparing m * m with n * n * r without leaving 32 bits: naturals are
\* written in base 1024, least digit first.
Base == 1024

Digits(n) == <<n % Base, (n \div Base) % Base, n \div (Base * Base)>>

RECURSIVE Carry(_, _)
Carry(ds, c) ==
    IF ds = <<>> THEN (IF c = 0 THEN <<>> ELSE <<c % Base>> \o Carry(<<>>, c \div Base))
    ELSE <<(Head(ds) + c) % Base>> \o Carry(Tail(ds), (Head(ds) + c) \div Base)

\* x * x for a three-digit x.
SquareDigits(x) ==
    Carry(<<x[1] * x[1], 2 * x[1] * x[2], 2 * x[1] * x[3] + x[2] * x[2],
            2 * x[2] * x[3], x[3] * x[3]>>, 0)

ScaleDigits(ds, k) == Carry([i \in 1 .. Len(ds) |-> ds[i] * k], 0)

Digit(ds, i) == IF i <= Len(ds) THEN ds[i] ELSE 0

\* -1, 0, 1 as x is below, equal to or above y, comparing from digit i down.
RECURSIVE CompareDigits(_, _, _)
CompareDigits(x, y, i) ==
    IF i = 0 THEN 0
    ELSE IF Digit(x, i) < Digit(y, i) THEN -1
    ELSE IF Digit(x, i) > Digit(y, i) THEN 1
    ELSE CompareDigits(x, y, i - 1)

\* The sign of m * m - n * n * r for naturals m, n below 2^30 and r < Base.
SquareGap(m, n, r) ==
    LET x == SquareDigits(Digits(m))
        y == ScaleDigits(SquareDigits(Digits(n)), r)
    IN  CompareDigits(x, y, IF Len(x) > Len(y) THEN Len(x) ELSE Len(y))

\* The sign (-1, 0, 1) of x.
Sign(x) ==
    LET sa == IF x.a > 0 THEN 1 ELSE IF x.a < 0 THEN -1 ELSE 0
        sb == IF x.b > 0 THEN 1 ELSE IF x.b < 0 THEN -1 ELSE 0
    IN  IF sb = 0 THEN sa
        ELSE IF sa = 0 \/ sa = sb THEN sb
        ELSE IF SquareGap(Abs(x.a), Abs(x.b), x.r) > 0 THEN sa ELSE sb

Less(x, y) == Sign(Sub(x, y)) < 0
Leq(x, y) == Sign(Sub(x, y)) <= 0
Max(x, y) == IF Less(x, y) THEN y ELSE x
Min(x, y) == IF Less(y, x) THEN y ELSE x

\* Math.sqrt of a positive rational p / q: sqrt(p * q) / q, the square part
\* of p * q taken out of the root.
Sqrt(x) ==
    LET n == x.a * x.d
        s == SquarePart(n, RootCeil(n, 1))
    IN  IF n = 0 THEN Num(0)
        ELSE IF s * s = n THEN Rat(s, x.d)
        ELSE Norm(0, s, n \div (s * s), x.d)

(***************************************************************************)
(* WaveSimulation.tsx: the constants of the drawing surface and of the     *)
(* seabed profile (lines 22-56).                                           *)
(***************************************************************************)
width == 600
height == 300
seaLevel == 200
maxRun == 500
minRun == 30

shoreX == width - 50

maxVisualDepthPx == 95
minVisualDepthPx == 30

\* The slope scale reversed: a long run for a steep slope.
run_Reversed(slope) ==
    Add(Num(minRun), Mul(Div(Num(slope - 1), Num(9)), Num(maxRun - minRun)))

\* const run = maxRun - ((slope - 1) / 9) * (maxRun - minRun);
run(slope) ==
    Sub(Num(maxRun), Mul(Div(Num(slope - 1), Num(9)), Num(maxRun - minRun)))

\* const shelfKneeX = shoreX - run;
shelfKneeX(slope) == Sub(Num(shoreX), run(slope))

\* The curve sharpness falling with the slope.
tension_Reversed(slope) ==
    Sub(Rat(9, 10), Mul(Div(Num(slope - 1), Num(9)), Rat(7, 10)))

\* const tension = 0.2 + ((slope - 1) / 9) * 0.7;
tension(slope) ==
    Add(Rat(2, 10), Mul(Div(Num(slope - 1), Num(9)), Rat(7, 10)))

(***************************************************************************)
(* The propagation schedule (lines 146-161).                               *)
(***************************************************************************)
deepDist(slope) == Max(Num(0), shelfKneeX(slope))
slopeDist(slope) == Sub(Num(shoreX), deepDist(slope))

baseSpeed == Rat(6, 10)
\* The depth normalised to 400 m, not to 40 m.
speedFactor_Norm400(depth) == Sqrt(Div(Num(depth), Num(400)))

speedFactor(depth) == Sqrt(Div(Num(depth), Num(40)))
\* The speed proportional to the depth, the square root left out.
speedDeep_Linear(depth) == Mul(baseSpeed, Div(Num(depth), Num(40)))

speedDeep(depth) == Mul(baseSpeed, speedFactor(depth))
speedSlopeAvg == Rat(2, 10)

timeDeep(slope, depth) == Div(deepDist(slope), speedDeep(depth))
\* The slope crossing timed at half the speed the packet then moves at.
timeSlope_HalfSpeed(slope) == Div(slopeDist(slope), Rat(1, 10))

timeSlope(slope) == Div(slopeDist(slope), speedSlopeAvg)
totalTimeUnits(slope, depth) == Add(timeDeep(slope, depth), timeSlope(slope))

(***************************************************************************)
(* calculateWavePosition (lines 164-180): the position part.  t is the     *)
(* transition's progress, a number in [0, 1].                              *)
(***************************************************************************)
currentVirtualTime(slope, depth, t) == Mul(t, totalTimeUnits(slope, depth))

\* Phase 1: Deep Water (Fast Constant Speed)
deepPhaseX(slope, depth, vt) == Mul(vt, speedDeep(depth))

\* Phase 2 measured from the origin, not from the end of the deep floor.
slopePhaseX_FromOrigin(slope, depth, vt) ==
    Mul(Sub(vt, timeDeep(slope, depth)), speedSlopeAvg)

\* Phase 2: Shoaling (Slower Speed)
slopePhaseX(slope, depth, vt) ==
    LET timeOnSlope == Sub(vt, timeDeep(slope, depth))
    IN  Add(deepDist(slope), Mul(timeOnSlope, speedSlopeAvg))

\* currentX as the if / else of lines 169-177 leaves it, before line 180.
unclampedX(slope, depth, t) ==
    LET vt == currentVirtualTime(slope, depth, t)
    IN  IF Less(vt, timeDeep(slope, depth))
        THEN deepPhaseX(slope, depth, vt)
        ELSE slopePhaseX(slope, depth, vt)

\* if (currentX > shoreX) currentX = shoreX;
currentX(slope, depth, t) ==
    LET x == unclampedX(slope, depth, t)
    IN  IF Less(Num(shoreX), x) THEN Num(shoreX) ELSE x

(***************************************************************************)
(* Math.pow with a fractional exponent has no closed form in Q(sqrt(r)).   *)
(* The model encloses its result between two neighbours of a grid of step  *)
(* 1 / PowScale; the two exact cases pow(0, e) = 0 and pow(1, e) = 1 are   *)
(* kept exact.  A number so enclosed is a record [lo, hi] of rationals.    *)
(*                                                                         *)
(* The comparisons behind the enclosure are made on naturals written with  *)
(* a 15-bit mantissa rounded outwards: [lo, hi, ex] stands for some value  *)
(* between lo * 2^ex and hi * 2^ex.                                        *)
(*                                                                         *)
(* The(S) is the element of a singleton S.  {F(v) : v \in {e}} computes e  *)
(* once and hands its value to F, where F(e) would compute e again at each *)
(* place F uses it.                                                        *)
(***************************************************************************)
The(S) == CHOOSE r \in S : TRUE

Mantissa == 32768

RECURSIVE Round(_, _, _)
Round(lo, hi, ex) ==
    IF hi < Mantissa THEN [lo |-> lo, hi |-> hi, ex |-> ex]
    ELSE Round(lo \div 2, (hi + 1) \div 2, ex + 1)

Times(x, y) ==
    The({Round(a.lo * b.lo, a.hi * b.hi, a.ex + b.ex) : a \in {x}, b \in {y}})

\* n^k for naturals n < Mantissa and k, by squaring.
RECURSIVE Power(_, _)
Power(n, k) ==
    IF k = 0 THEN Round(1, 1, 0)
    ELSE IF k % 2 = 0 THEN The({Times(h, h) : h \in {Power(n, k \div 2)}})
    ELSE Times(Round(n, n, 0), Power(n, k - 1))

\* TRUE only when every value of x is at most every value of y.
Below(x, y) ==
    The({IF a.hi = 0 THEN TRUE
         ELSE IF b.lo = 0 THEN FALSE
         ELSE IF a.ex >= b.ex
         THEN a.ex - b.ex <= 15 /\ a.hi * 2^(a.ex - b.ex) <= b.lo
         ELSE b.ex - a.ex > 15 \/ a.hi <= b.lo * 2^(b.ex - a.ex)
         : a \in {x}, b \in {y}})

PowScale == 1024

Exact(x) == The({[lo |-> v, hi |-> v] : v \in {x}})

\* The greatest k in lo .. hi with k / PowScale <= x.
RECURSIVE GridFloor(_, _, _)
GridFloor(x, lo, hi) ==
    IF lo = hi THEN lo
    ELSE The({IF Leq(Rat(mid, PowScale), x) THEN GridFloor(x, mid, hi)
              ELSE GridFloor(x, lo, mid - 1)
              : mid \in {(lo + hi + 1) \div 2}})

\* The grid neighbours of a number x of [0, 1]: x itself when rational.
Enclose(x) ==
    The({IF v.b = 0 THEN Exact(v)
         ELSE The({[lo |-> Rat(k, PowScale), hi |-> Rat(k + 1, PowScale)]
                   : k \in {GridFloor(v, 0, PowScale)}})
         : v \in {x}})

\* The greatest k in lo .. hi with (k / PowScale)^(a / b) certainly at most
\* n / m, that is k^b * m^a <= n^a * PowScale^b, where ma encloses m^a and
\* target encloses n^a * PowScale^b.
RECURSIVE PowFloor(_, _, _, _, _)
PowFloor(target, ma, b, lo, hi) ==
    IF lo = hi THEN lo
    ELSE The({IF Below(Times(Power(mid, b), ma), target)
              THEN PowFloor(target, ma, b, mid, hi)
              ELSE PowFloor(target, ma, b, lo, mid - 1)
              : mid \in {(lo + hi + 1) \div 2}})

\* The least k in lo .. hi with (k / PowScale)^(a / b) certainly at least
\* n / m.
RECURSIVE PowCeil(_, _, _, _, _)
PowCeil(target, ma, b, lo, hi) ==
    IF lo = hi THEN lo
    ELSE The({IF Below(target, Times(Power(mid, b), ma))
              THEN PowCeil(target, ma, b, lo, mid)
              ELSE PowCeil(target, ma, b, mid + 1, hi)
              : mid \in {(lo + hi) \div 2}})

\* Math.pow(x, e) for an enclosed x >= 0 whose power is at most top and a
\* rational exponent e > 0.
pow(x, e, top) ==
    The({IF v = Exact(Num(0)) THEN Exact(Num(0))
         ELSE IF v = Exact(Num(1)) THEN Exact(Num(1))
         ELSE The({[lo |-> Rat(PowFloor(tlo, mlo, f.d, 0, top * PowScale),
                               PowScale),
                    hi |-> Rat(PowCeil(thi, mhi, f.d, 0, top * PowScale),
                               PowScale)]
                   : tlo \in {Times(Power(v.lo.a, f.a), Power(PowScale, f.d))},
                     mlo \in {Power(v.lo.d, f.a)},
                     thi \in {Times(Power(v.hi.a, f.a), Power(PowScale, f.d))},
                     mhi \in {Power(v.hi.d, f.a)}})
         : v \in {x}, f \in {e}})

(***************************************************************************)
(* calculateWavePosition (lines 182-207): the height part, for a packet at *)
(* currentX = x.                                                           *)
(***************************************************************************)
progressOnSlope(slope, x) ==
    Div(Sub(x, shelfKneeX(slope)), Sub(Num(shoreX), shelfKneeX(slope)))

\* const power = 1 + (tension * 1.5);
power(slope) == Add(Num(1), Mul(tension(slope), Rat(3, 2)))

adjustedProgress(slope, x) ==
    pow(Enclose(progressOnSlope(slope, x)), power(slope), 1)

\* The ratio floored at 0.05.
currentDepthRatio_LowFloor(slope, x) ==
    IF Less(shelfKneeX(slope), x)
    THEN The({[lo |-> Max(Sub(Num(1), p.hi), Rat(1, 20)),
               hi |-> Max(Sub(Num(1), p.lo), Rat(1, 20))]
              : p \in {adjustedProgress(slope, x)}})
    ELSE Exact(Num(1))

\* let currentDepthRatio = 1; if (currentX > shelfKneeX) { ... }
currentDepthRatio(slope, x) ==
    IF Less(shelfKneeX(slope), x)
    THEN The({[lo |-> Max(Sub(Num(1), p.hi), Rat(1, 10)),
               hi |-> Max(Sub(Num(1), p.lo), Rat(1, 10))]
              : p \in {adjustedProgress(slope, x)}})
    ELSE Exact(Num(1))

\* Green's law: Math.pow(1 / currentDepthRatio, 0.25), at most 10^0.25 < 2.
greensLaw(ratio) ==
    pow([lo |-> Inv(ratio.hi), hi |-> Inv(ratio.lo)], Rat(1, 4), 2)

\* The reduction counted from slope 5.
steepFactor_From5(slope) == Mul(Num(slope - 5), Rat(15, 100))

\* const steepFactor = (slope - 6) * 0.15;
steepFactor(slope) == Mul(Num(slope - 6), Rat(15, 100))

Scale(v, c) ==
    The({[lo |-> Mul(a.lo, k), hi |-> Mul(a.hi, k)] : a \in {v}, k \in {c}})

\* The correction left out on every slope.
shoalingFactor_Uncorrected(slope, greens) == greens

\* if (slope > 6) shoalingFactor = shoalingFactor * (1 - steepFactor);
\* greens is the factor line 197 gave.
shoalingFactor(slope, greens) ==
    IF slope > 6 THEN Scale(greens, Sub(Num(1), steepFactor(slope)))
    ELSE greens

\* Lines 183-205 in their order, for a packet at currentX = x: each value
\* is computed once and handed to the next line.
Shoaling(slope, x) ==
    The({The({[currentDepthRatio |-> r, greensLaw |-> g,
               shoalingFactor |-> shoalingFactor(slope, g)]
              : g \in {greensLaw(r)}})
         : r \in {currentDepthRatio(slope, x)}})

(***************************************************************************)
(* Sampling the model.  The inputs are drawn from Slopes x Depths; the     *)
(* interpolator of attrTween (lines 225-236) is called with a progress     *)
(* that never decreases.  Progress values are drawn from a uniform grid.    *)
(***************************************************************************)
TGrid == 4

Slopes == 1 .. 10
Depths == {10, 11, 15, 20, 25, 30, 37, 40, 45, 50, 57, 60, 65, 70, 75, 79, 80}

Progress == {Rat(k, TGrid) : k \in 0 .. TGrid}

VARIABLES
    mSlope, mDepth, mSamples,       \* the model sampler: inputs, last samples
    mounted, props, visualGain,     \* WaveSimulation: mounted, props, state
    timers, surface, paths, roots,  \* d3: timers, drawn surface, transitions
    appSlope, appIntensity, appDepth,  \* App: the three simulation inputs
    isAnalyzing, analysisResult, locations, runCall,   \* App: the analysis run
    showMap, selectedLocation, depthSyncPending,   \* App: the map selection
    history,                        \* App: the simulation records
    changedSinceRun,                \* what set the inputs since the last run
    analyzing, errorMsg, analyzedLocation, marker, requests,  \* LocationPicker
    scene                           \* what one effect run computes and draws

modelVars == <<mSlope, mDepth, mSamples>>
simVars == <<mounted, props, visualGain, timers, surface, paths, roots>>
hostVars == <<appSlope, appIntensity, appDepth, isAnalyzing, analysisResult, locations,
              runCall, showMap, selectedLocation, depthSyncPending, history,
              changedSinceRun>>
pickerVars == <<analyzing, errorMsg, analyzedLocation, marker, requests>>
appVars == <<hostVars, pickerVars>>
vars == <<modelVars, simVars, appVars, scene>>

(***************************************************************************)
(* The model sampler.                                                      *)
(***************************************************************************)
\* One call of the interpolator: (time) => calculateWavePosition(time).
Sample(t) ==
    [t |-> t,
     raw |-> unclampedX(mSlope, mDepth, t),
     x |-> currentX(mSlope, mDepth, t)]

Tween(t) ==
    /\ mSamples # <<>> => Less(mSamples[Len(mSamples)].t, t)
    /\ mSamples' = IF mSamples = <<>> THEN <<Sample(t)>>
                   ELSE <<mSamples[Len(mSamples)], Sample(t)>>
    /\ UNCHANGED <<mSlope, mDepth>>
    /\ UNCHANGED simVars
    /\ UNCHANGED <<appVars, scene>>

(***************************************************************************)
(* The WaveSimulation component.  One effect (lines 16-303) with the       *)
(* dependencies [slope, intensity, depth, recommendedHeight, visualGain]:  *)
(* React runs its cleanup, then the effect again, in the commit in which a *)
(* dependency changed, and runs the cleanup on unmount.                    *)
(*                                                                         *)
(* A closure of an effect run is identified by the values it captured.     *)
(*   timers   the captured values of every running surface timer           *)
(*   surface  the amplitude the water paths of the svg were last drawn     *)
(*            with (<<>>: not drawn yet)                                   *)
(*   paths    the wave packet paths: the captured values, the state of the *)
(*            path's transition (scheduled, running, none), its progress k *)
(*            of PacketFrames, its "d" attribute and whether the path is   *)
(*            still inside the svg                                         *)
(*   roots    the transitions d3.transition() scheduled on the document    *)
(*            element, oldest first; they are not inside the svg           *)
(***************************************************************************)
PacketFrames == 3
MaxRoots == 3

SimSlopes == {2, 9}
SimIntensities == {1, 10}
SimDepths == {10, 80}
SimHeights == {<<>>, <<15>>}
SimGains == {10, 30}

SimProps ==
    [slope : SimSlopes, intensity : SimIntensities, depth : SimDepths,
     recommendedHeight : SimHeights]

\* What the closures of an effect run capture.
Closure(p, g) ==
    [slope |-> p.slope, intensity |-> p.intensity, depth |-> p.depth,
     recommendedHeight |-> p.recommendedHeight, visualGain |-> g]

CurrentEnv == Closure(props, visualGain)

\* const amp = 1.5 + (intensity * 0.85);
amp(intensity) == Add(Rat(15, 10), Mul(Num(intensity), Rat(85, 100)))

\* The amplitude without the visual gain.
waveAmp_NoGain(intensity, gain) == Num(intensity * 3)

\* const waveAmp = intensity * 3 * visualGain;
waveAmp(intensity, gain) == Mul(Num(intensity * 3), Rat(gain, 10))

\* The interpolator of attrTween at progress k / PacketFrames: the position
\* and the width the "d" attribute is built from.
PacketShape(env, k) ==
    [x |-> currentX(env.slope, env.depth, Rat(k, PacketFrames)),
     w |-> 40 + (env.intensity * 2),
     waveAmp |-> waveAmp(env.intensity, env.visualGain)]

\* Every closure an effect run can capture.
SimEnvs == {Closure(p, g) : p \in SimProps, g \in SimGains}

\* The values the callbacks compute, tabulated per closure and frame.
SurfaceAmps == [i \in SimIntensities |-> amp(i)]
PacketShapes ==
    [e \in SimEnvs, k \in 0 .. PacketFrames - 1 |-> PacketShape(e, k)]

\* waveGroup.append("path") ... wavePath.transition(t): the transition is
\* scheduled when the path can reach the document element through its
\* parents (d3 takes the timing from there), and throws when it cannot.
NewPath(env, inSvg) ==
    [env |-> env, state |-> IF inSvg THEN "scheduled" ELSE "none",
     k |-> 0, d |-> <<>>, attached |-> inSvg]

\* const t = d3.transition().duration(5000).ease(d3.easeLinear);
NewRoot == [state |-> "scheduled", k |-> 0]

\* surfaceTimer.stop()
StopTimer_Skipped(ts, env) == ts

StopTimer(ts, env) == ts \ {env}

\* svg.selectAll("*").interrupt(): every transition on an element inside
\* the svg is interrupted (running) or cancelled (scheduled); the elements
\* stay.  No "end" event is dispatched.
InterruptAll_Skipped(ps) == ps

InterruptAll(ps) ==
    {IF p.attached THEN [p EXCEPT !.state = "none"] ELSE p : p \in ps}

\* svg.selectAll("*").remove(): the elements leave the svg; a transition on
\* a removed element keeps its timer.  Removed elements without one are
\* garbage.
RemoveAll(ps) ==
    {[p EXCEPT !.attached = FALSE] : p \in {q \in ps : q.state # "none"}}

\* The cleanup function (lines 298-301).
CleanupTimers(env) == StopTimer(timers, env)
CleanupPaths == InterruptAll(paths)

\* The body of the effect for the values env (lines 19-295), after the
\* cleanup of the previous run if there was one.
EffectRun(env, ts, ps) ==
    /\ Len(roots) < MaxRoots
    /\ timers' = ts \cup {env}
    /\ surface' = <<>>
    /\ paths' = RemoveAll(ps) \cup {NewPath(env, TRUE)}
    /\ roots' = Append(roots, NewRoot)

SimInit ==
    /\ mounted = FALSE
    /\ props = [slope |-> 2, intensity |-> 1, depth |-> 10,
                recommendedHeight |-> <<>>]
    /\ visualGain = 10
    /\ timers = {}
    /\ surface = <<>>
    /\ paths = {}
    /\ roots = <<>>

\* The component mounts with the props of its parent; useState(1.0).
Mount(p) ==
    /\ ~mounted
    /\ mounted' = TRUE
    /\ props' = p
    /\ visualGain' = 10
    /\ EffectRun(Closure(p, 10), timers, paths)
    /\ UNCHANGED <<modelVars, appVars, scene>>

\* The parent renders the component with other props.
SetProps(p) ==
    /\ mounted
    /\ p # props
    /\ props' = p
    /\ EffectRun(Closure(p, visualGain), CleanupTimers(CurrentEnv), CleanupPaths)
    /\ UNCHANGED <<mounted, visualGain>>
    /\ UNCHANGED <<modelVars, appVars, scene>>

\* onChange of the Visual Height slider: setVisualGain(parseFloat(value)).
SetVisualGain(g) ==
    /\ mounted
    /\ g # visualGain
    /\ visualGain' = g
    /\ EffectRun(Closure(props, g), CleanupTimers(CurrentEnv), CleanupPaths)
    /\ UNCHANGED <<mounted, props>>
    /\ UNCHANGED <<modelVars, appVars, scene>>

\* The component unmounts: the cleanup runs, the svg is dropped.
Unmount ==
    /\ mounted
    /\ mounted' = FALSE
    /\ timers' = CleanupTimers(CurrentEnv)
    /\ paths' = RemoveAll(CleanupPaths)
    /\ surface' = <<>>
    /\ UNCHANGED <<props, visualGain, roots>>
    /\ UNCHANGED <<modelVars, appVars, scene>>

\* The callback of d3.timer (lines 74-109) of the run that captured env.
\* Its water paths are those of the svg only while its run is the current one.
SurfaceTick(env) ==
    /\ env \in timers
    /\ surface' = IF mounted /\ env = CurrentEnv
                  THEN <<SurfaceAmps[env.intensity]>> ELSE surface
    /\ UNCHANGED <<mounted, props, visualGain, timers, paths, roots>>
    /\ UNCHANGED <<modelVars, appVars, scene>>

\* The transition of a packet path starts: its first frame, progress 0.
PacketStart(p) ==
    /\ p \in paths
    /\ p.state = "scheduled"
    /\ paths' = (paths \ {p})
                  \cup {[p EXCEPT !.state = "running",
                                  !.d = <<PacketShapes[p.env, 0]>>]}
    /\ UNCHANGED <<mounted, props, visualGain, timers, surface, roots>>
    /\ UNCHANGED <<modelVars, appVars, scene>>

\* A frame of a running packet transition before its last.
PacketTick(p) ==
    /\ p \in paths
    /\ p.state = "running"
    /\ p.k + 1 < PacketFrames
    /\ paths' = (paths \ {p})
                  \cup {[p EXCEPT !.k = p.k + 1,
                                  !.d = <<PacketShapes[p.env, p.k + 1]>>]}
    /\ UNCHANGED <<mounted, props, visualGain, timers, surface, roots>>
    /\ UNCHANGED <<modelVars, appVars, scene>>

\* animateWave (lines 213-241) called from the "end" listener of p.
animateWave_NoRespawn(p) == {}

animateWave(p) == {NewPath(p.env, p.attached)}

\* The last frame of a packet transition: progress 1, then the "end"
\* listener (lines 237-240): wavePath.remove(); animateWave().
PacketEnd(p) ==
    /\ p \in paths
    /\ p.state = "running"
    /\ p.k + 1 = PacketFrames
    /\ Len(roots) < MaxRoots
    /\ paths' = (paths \ {p}) \cup animateWave(p)
    /\ roots' = Append(roots, NewRoot)
    /\ UNCHANGED <<mounted, props, visualGain, timers, surface>>
    /\ UNCHANGED <<modelVars, appVars, scene>>

\* A transition on the document element starts: d3 interrupts the running
\* transition of the same name on that element and cancels the older ones.
RootStart(i) ==
    /\ i \in 1 .. Len(roots)
    /\ roots[i].state = "scheduled"
    /\ roots' = <<[roots[i] EXCEPT !.state = "running"]>>
                  \o SubSeq(roots, i + 1, Len(roots))
    /\ UNCHANGED <<mounted, props, visualGain, timers, surface, paths>>
    /\ UNCHANGED <<modelVars, appVars, scene>>

\* A frame of a running transition on the document element; it has no
\* tween and no listener, and ends after its duration.
RootTick(i) ==
    /\ i \in 1 .. Len(roots)
    /\ roots[i].state = "running"
    /\ roots' = IF roots[i].k + 1 < PacketFrames
                THEN [roots EXCEPT ![i].k = roots[i].k + 1]
                ELSE SubSeq(roots, 1, i - 1) \o SubSeq(roots, i + 1, Len(roots))
    /\ UNCHANGED <<mounted, props, visualGain, timers, surface, paths>>
    /\ UNCHANGED <<modelVars, appVars, scene>>

(***************************************************************************)
(* The host App (src/App.tsx), the LocationPicker (src/unnamed/part_001)   *)
(* and the conversion of analyzeCoordinates (src/services/geminiService.ts)*)
(*                                                                         *)
(* A value that may be null is a sequence: <<>> for null, <<v>> for v.     *)
(*   runCall           the arguments captured by the handleRunSimulation   *)
(*                     call that is awaiting its two service calls         *)
(*   appSlope, appIntensity, appDepth   the state slope, intensity, depth  *)
(*   depthSyncPending  the depth-sync effect is due: selectedLocation      *)
(*                     changed in the last commit                          *)
(*   requests          the coordinates of the analyzeCoordinates calls of  *)
(*                     the mounted picker that have not returned           *)
(*   changedSinceRun   not state of the program: what has set slope,       *)
(*                     intensity or depth since the latest run was         *)
(*                     started, "none", "slider" (a slider was moved) or   *)
(*                     "other" (only a location selected or cleared, or a  *)
(*                     record restored)                                    *)
(***************************************************************************)
MaxHistory == 1
MaxRequests == 2

SliderSlopes == {1, 10}
SliderIntensities == {10}
SliderDepths == {80}
Coords == {1}

\* What JSON.parse(response.text) can hold; text = FALSE stands for an empty
\* response or a thrown error.  A number the service left out reads as 0.
Responses ==
    {[text |-> FALSE, locationName |-> "", isLand |-> FALSE,
      depthMeters |-> 0, slopeScore |-> 0],
     [text |-> TRUE, locationName |-> "Plain", isLand |-> TRUE,
      depthMeters |-> 0, slopeScore |-> 0],
     [text |-> TRUE, locationName |-> "Shelf", isLand |-> FALSE,
      depthMeters |-> 0, slopeScore |-> 0],
     [text |-> TRUE, locationName |-> "Trench", isLand |-> FALSE,
      depthMeters |-> 200, slopeScore |-> 12]}

\* x || y for numbers: y when x is 0 (or missing), x otherwise.
OrElse(x, y) == IF x = 0 THEN y ELSE x

\* analyzeCoordinates (geminiService.ts lines 8-55): null or a LocationData.
analyzeCoordinates(lat, lng, response) ==
    IF response.text
    THEN <<[name |-> response.locationName, lat |-> lat, lng |-> lng,
            depthMeters |-> OrElse(response.depthMeters, 0),
            slopeScore |-> OrElse(response.slopeScore, 5),
            isLand |-> response.isLand]>>
    ELSE <<>>

\* What analyzeSimulation resolves to: a parsed report, or the result of its
\* catch block.
AnalysisResults ==
    {[markdown |-> "report", recommendedSeawallHeight |-> 15,
      estimatedWaveHeight |-> 12],
     [markdown |-> "error", recommendedSeawallHeight |-> 0,
      estimatedWaveHeight |-> 0]}

\* The result of the catch block of analyzeSimulation.
ErrorResult(analysisData) ==
    /\ analysisData.markdown = "error"
    /\ analysisData.recommendedSeawallHeight = 0
    /\ analysisData.estimatedWaveHeight = 0

\* What findRealWorldLocations resolves to: the places it found, or the
\* empty list of its catch block (and of a response without places).
MapResults == {<<"place">>, <<>>}

\* const depthM = Math.min(Math.max(selectedLocation.depthMeters, 10), 80);
depthM_Unclamped(location) == location.depthMeters

depthM(location) ==
    IF location.depthMeters < 10 THEN 10
    ELSE IF location.depthMeters > 80 THEN 80
    ELSE location.depthMeters

PickerInit ==
    /\ analyzing = FALSE
    /\ errorMsg = <<>>
    /\ analyzedLocation = <<>>
    /\ marker = <<>>
    /\ requests = <<>>

\* A picker that mounts starts from its initial state; the calls of an
\* unmounted picker set no state.
PickerReset ==
    /\ analyzing' = FALSE
    /\ errorMsg' = <<>>
    /\ analyzedLocation' = <<>>
    /\ marker' = <<>>
    /\ requests' = <<>>

AppInit ==
    /\ appSlope = 5
    /\ appIntensity = 5
    /\ appDepth = 40
    /\ isAnalyzing = FALSE
    /\ analysisResult = <<>>
    /\ locations = <<>>
    /\ runCall = <<>>
    /\ showMap = FALSE
    /\ selectedLocation = <<>>
    /\ depthSyncPending = FALSE
    /\ history = <<>>
    /\ changedSinceRun = "none"
    /\ PickerInit

\* A control other than a slider sets slope, intensity or depth.
SetByOther ==
    changedSinceRun' = IF changedSinceRun = "slider" THEN "slider" ELSE "other"

\* Steps of the App leave the model sampler and the component model alone.
AppFrame == UNCHANGED <<modelVars, simVars, scene>>

\* React runs the depth-sync effect of a commit before it handles the next
\* event or resolved promise.
Settled == ~depthSyncPending

\* The controls of the host can be clicked: the picker, a fixed overlay over
\* the whole window (part_001 line 109), is not shown.
HostShown == Settled /\ ~showMap

\* The slope slider without line 234.
SetSlope_KeepsLocation(v) ==
    /\ HostShown
    /\ v # appSlope
    /\ appSlope' = v
    /\ UNCHANGED <<appIntensity, appDepth, isAnalyzing, analysisResult,
                   locations, runCall, showMap, selectedLocation,
                   depthSyncPending, history>>
    /\ UNCHANGED pickerVars
    /\ changedSinceRun' = "slider"
    /\ AppFrame

\* onChange of the slope slider (App.tsx lines 232-235).
SetSlope(v) ==
    /\ HostShown
    /\ v # appSlope
    /\ appSlope' = v
    /\ selectedLocation' = <<>>
    /\ UNCHANGED <<appIntensity, appDepth, isAnalyzing, analysisResult,
                   locations, runCall, showMap, depthSyncPending, history>>
    /\ UNCHANGED pickerVars
    /\ changedSinceRun' = "slider"
    /\ AppFrame

\* onChange of the intensity slider (line 255).
SetIntensity(v) ==
    /\ HostShown
    /\ v # appIntensity
    /\ appIntensity' = v
    /\ UNCHANGED <<appSlope, appDepth, isAnalyzing, analysisResult, locations,
                   runCall, showMap, selectedLocation, depthSyncPending,
                   history>>
    /\ UNCHANGED pickerVars
    /\ changedSinceRun' = "slider"
    /\ AppFrame

\* onChange of the depth slider, rendered only without a selected location
\* (lines 266-278).
SetDepth(v) ==
    /\ HostShown
    /\ selectedLocation = <<>>
    /\ v # appDepth
    /\ appDepth' = v
    /\ UNCHANGED <<appSlope, appIntensity, isAnalyzing, analysisResult,
                   locations, runCall, showMap, selectedLocation,
                   depthSyncPending, history>>
    /\ UNCHANGED pickerVars
    /\ changedSinceRun' = "slider"
    /\ AppFrame

\* The clear button of the selected location (line 209).
ClearLocation ==
    /\ HostShown
    /\ selectedLocation # <<>>
    /\ selectedLocation' = <<>>
    /\ appSlope' = 5
    /\ appDepth' = 40
    /\ UNCHANGED <<appIntensity, isAnalyzing, analysisResult, locations,
                   runCall, showMap, depthSyncPending, history>>
    /\ UNCHANGED pickerVars
    /\ SetByOther
    /\ AppFrame

\* The map button (line 189): the picker mounts.
OpenMap ==
    /\ HostShown
    /\ showMap' = TRUE
    /\ PickerReset
    /\ UNCHANGED <<appSlope, appIntensity, appDepth, isAnalyzing,
                   analysisResult, locations, runCall, selectedLocation,
                   depthSyncPending, history>>
    /\ UNCHANGED changedSinceRun
    /\ AppFrame

\* onClose of the picker (line 370): the picker unmounts.
CloseMap ==
    /\ Settled
    /\ showMap
    /\ showMap' = FALSE
    /\ PickerReset
    /\ UNCHANGED <<appSlope, appIntensity, appDepth, isAnalyzing,
                   analysisResult, locations, runCall, selectedLocation,
                   depthSyncPending, history>>
    /\ UNCHANGED changedSinceRun
    /\ AppFrame

\* The click handler of the map (part_001 lines 52-66), up to its await.
MapClick(c) ==
    /\ Settled
    /\ showMap
    /\ Len(requests) < MaxRequests
    /\ marker' = <<c>>
    /\ analyzing' = TRUE
    /\ errorMsg' = <<>>
    /\ analyzedLocation' = <<>>
    /\ requests' = Append(requests, c)
    /\ UNCHANGED hostVars
    /\ AppFrame

\* The click handler after its await without the test of lines 77-81.
AnalysisDone_NoLandCheck(i, response) ==
    /\ Settled
    /\ i \in 1 .. Len(requests)
    /\ LET data == analyzeCoordinates(requests[i], requests[i], response)
       IN  IF data = <<>>
           THEN /\ errorMsg' = <<"failed">>
                /\ UNCHANGED analyzedLocation
           ELSE /\ analyzedLocation' = data
                /\ UNCHANGED errorMsg
    /\ analyzing' = FALSE
    /\ requests' = SubSeq(requests, 1, i - 1)
                     \o SubSeq(requests, i + 1, Len(requests))
    /\ UNCHANGED marker
    /\ UNCHANGED hostVars
    /\ AppFrame

\* The click handler after its await (lines 67-90): request i returns.
AnalysisDone(i, response) ==
    /\ Settled
    /\ i \in 1 .. Len(requests)
    /\ LET data == analyzeCoordinates(requests[i], requests[i], response)
       IN  IF data = <<>>
           THEN /\ errorMsg' = <<"failed">>
                /\ UNCHANGED analyzedLocation
           ELSE IF data[1].isLand
           THEN /\ errorMsg' = <<"land">>
                /\ UNCHANGED analyzedLocation
           ELSE /\ analyzedLocation' = data
                /\ UNCHANGED errorMsg
    /\ analyzing' = FALSE
    /\ requests' = SubSeq(requests, 1, i - 1)
                     \o SubSeq(requests, i + 1, Len(requests))
    /\ UNCHANGED marker
    /\ UNCHANGED hostVars
    /\ AppFrame

\* The re-select button of the success box (part_001 lines 184-189), shown
\* when !analyzing && analyzedLocation (line 151).
Reselect ==
    /\ Settled
    /\ showMap
    /\ ~analyzing
    /\ analyzedLocation # <<>>
    /\ analyzedLocation' = <<>>
    /\ UNCHANGED <<analyzing, errorMsg, marker, requests>>
    /\ UNCHANGED hostVars
    /\ AppFrame

\* handleLocationSelect (App.tsx lines 56-60).
handleLocationSelect(data) ==
    /\ selectedLocation' = <<data>>
    /\ appSlope' = data.slopeScore
    /\ showMap' = FALSE

\* handleConfirmSelection (part_001 lines 102-106), the handler of the
\* confirm button of the success box (lines 190-195), shown when
\* !analyzing && analyzedLocation: onSelect is the host's
\* handleLocationSelect; the picker unmounts, and the change of
\* selectedLocation makes the depth-sync effect due.
ConfirmSelection ==
    /\ Settled
    /\ showMap
    /\ ~analyzing
    /\ analyzedLocation # <<>>
    /\ handleLocationSelect(analyzedLocation[1])
    /\ depthSyncPending' = TRUE
    /\ PickerReset
    /\ UNCHANGED <<appIntensity, appDepth, isAnalyzing, analysisResult,
                   locations, runCall, history>>
    /\ SetByOther
    /\ AppFrame

\* The depth-sync effect (App.tsx lines 38-45).
DepthSync ==
    /\ depthSyncPending
    /\ depthSyncPending' = FALSE
    /\ appDepth' = IF selectedLocation # <<>>
                   THEN depthM(selectedLocation[1]) ELSE appDepth
    /\ UNCHANGED <<appSlope, appIntensity, isAnalyzing, analysisResult,
                   locations, runCall, showMap, selectedLocation, history>>
    /\ UNCHANGED pickerVars
    /\ UNCHANGED changedSinceRun
    /\ AppFrame

\* handleRunSimulation (lines 62-70) up to its await; the button is disabled
\* while isAnalyzing (line 307).
RunSimulation ==
    /\ HostShown
    /\ ~isAnalyzing
    /\ isAnalyzing' = TRUE
    /\ analysisResult' = <<>>
    /\ locations' = <<>>
    /\ runCall' = <<[slope |-> appSlope, intensity |-> appIntensity,
                     depth |-> appDepth,
                     locationName |-> IF selectedLocation # <<>>
                                      THEN selectedLocation[1].name
                                      ELSE "custom"]>>
    /\ UNCHANGED <<appSlope, appIntensity, appDepth, showMap, selectedLocation,
                   depthSyncPending, history>>
    /\ UNCHANGED pickerVars
    /\ changedSinceRun' = "none"
    /\ AppFrame

\* The record of lines 80-93 built from the state at the time the calls
\* return.
NewRecord_Current(call, analysisData) ==
    [locationName |-> IF selectedLocation # <<>>
                      THEN selectedLocation[1].name ELSE "custom",
     params |-> [slope |-> appSlope, intensity |-> appIntensity,
                 depth |-> appDepth],
     result |-> [recommendedHeight |-> analysisData.recommendedSeawallHeight,
                 waveHeight |-> analysisData.estimatedWaveHeight]]

\* The record of lines 80-93 (id and timestamp left out).
NewRecord(call, analysisData) ==
    [locationName |-> call.locationName,
     params |-> [slope |-> call.slope, intensity |-> call.intensity,
                 depth |-> call.depth],
     result |-> [recommendedHeight |-> analysisData.recommendedSeawallHeight,
                 waveHeight |-> analysisData.estimatedWaveHeight]]

\* handleRunSimulation after Promise.all resolved (lines 75-100).  The test
\* of line 79 is on an object, which is never falsy.
RunResolved(analysisData, mapsData) ==
    /\ Settled
    /\ runCall # <<>>
    /\ analysisResult' = <<analysisData>>
    /\ locations' = mapsData
    /\ history' = <<NewRecord(runCall[1], analysisData)>> \o history
    /\ isAnalyzing' = FALSE
    /\ runCall' = <<>>
    /\ UNCHANGED <<appSlope, appIntensity, appDepth, showMap, selectedLocation,
                   depthSyncPending>>
    /\ UNCHANGED pickerVars
    /\ UNCHANGED changedSinceRun
    /\ AppFrame

\* handleRunSimulation without its finally block.
RunRejected_NoFinally ==
    /\ Settled
    /\ runCall # <<>>
    /\ runCall' = <<>>
    /\ UNCHANGED <<appSlope, appIntensity, appDepth, isAnalyzing,
                   analysisResult, locations, showMap, selectedLocation,
                   depthSyncPending, history>>
    /\ UNCHANGED pickerVars
    /\ UNCHANGED changedSinceRun
    /\ AppFrame

\* handleRunSimulation after Promise.all rejected (lines 97-100): a service
\* function threw before its try block.
RunRejected ==
    /\ Settled
    /\ runCall # <<>>
    /\ isAnalyzing' = FALSE
    /\ runCall' = <<>>
    /\ UNCHANGED <<appSlope, appIntensity, appDepth, analysisResult, locations,
                   showMap, selectedLocation, depthSyncPending, history>>
    /\ UNCHANGED pickerVars
    /\ UNCHANGED changedSinceRun
    /\ AppFrame

\* handleRestoreRecord without its setDepth call.
handleRestoreRecord_NoDepth(i) ==
    /\ HostShown
    /\ i \in 1 .. Len(history)
    /\ appSlope' = history[i].params.slope
    /\ appIntensity' = history[i].params.intensity
    /\ selectedLocation' = <<>>
    /\ UNCHANGED <<appDepth, isAnalyzing, analysisResult, locations, runCall,
                   showMap, depthSyncPending, history>>
    /\ UNCHANGED pickerVars
    /\ SetByOther
    /\ AppFrame

\* handleRestoreRecord (lines 104-115) for the i-th record shown.
handleRestoreRecord(i) ==
    /\ HostShown
    /\ i \in 1 .. Len(history)
    /\ appSlope' = history[i].params.slope
    /\ appIntensity' = history[i].params.intensity
    /\ appDepth' = history[i].params.depth
    /\ selectedLocation' = <<>>
    /\ UNCHANGED <<isAnalyzing, analysisResult, locations, runCall, showMap,
                   depthSyncPending, history>>
    /\ UNCHANGED pickerVars
    /\ SetByOther
    /\ AppFrame

\* onClear of the history panel (line 359).
ClearHistory ==
    /\ HostShown
    /\ history # <<>>
    /\ history' = <<>>
    /\ UNCHANGED <<appSlope, appIntensity, appDepth, isAnalyzing,
                   analysisResult, locations, runCall, showMap,
                   selectedLocation, depthSyncPending>>
    /\ UNCHANGED pickerVars
    /\ UNCHANGED changedSinceRun
    /\ AppFrame

(***************************************************************************)
(* One run of the effect body (lines 19-295) as a function of the props    *)
(* and of visualGain: scene holds the inputs of the last run and what it   *)
(* computed and drew.                                                      *)
(***************************************************************************)
SceneIntensities == {1, 5, 10}
SceneDepths == {5, 10, 40, 80, 100}
SceneGains == {5, 10, 30}
SceneHeights == {<<>>, <<15>>}

SceneInputs ==
    [slope : Slopes, intensity : SceneIntensities, depth : SceneDepths,
     visualGain : SceneGains, recommendedHeight : SceneHeights]

\* d3.scaleLinear().domain([10, 80]).range([30, 95]) without clamp(true).
depthScale_Unclamped(depth) ==
    LET t == Div(Sub(Num(depth), Num(10)), Num(80 - 10))
    IN  Add(Mul(Num(minVisualDepthPx), Sub(Num(1), t)),
            Mul(Num(maxVisualDepthPx), t))

\* d3.scaleLinear().domain([10, 80]).range([30, 95]).clamp(true): the input
\* is clamped to the domain, normalised, and interpolated as a (1 - t) + b t.
depthScale(depth) ==
    LET x == Max(Num(10), Min(Num(80), Num(depth)))
        t == Div(Sub(x, Num(10)), Num(80 - 10))
    IN  Add(Mul(Num(minVisualDepthPx), Sub(Num(1), t)),
            Mul(Num(maxVisualDepthPx), t))

deepDepthY(depth) == Add(Num(seaLevel), depthScale(depth))
shoreDepthY == Num(seaLevel)

\* const cpX = shelfKneeX + (run * tension);
cpX(slope) == Add(shelfKneeX(slope), Mul(run(slope), tension(slope)))

\* The control point lifted above the sea level.
cpY_AboveSea(depth) == Num(seaLevel - 50)

\* const cpY = deepDepthY;
cpY(depth) == deepDepthY(depth)

\* The curve started from the sea level above the knee.
seabedPath_Detached(slope, depth) ==
    <<[op |-> "M", to |-> <<Num(0), deepDepthY(depth)>>],
      [op |-> "L", to |-> <<shelfKneeX(slope), deepDepthY(depth)>>],
      [op |-> "M", to |-> <<shelfKneeX(slope), shoreDepthY>>],
      [op |-> "Q", cp |-> <<cpX(slope), cpY(depth)>>,
                   to |-> <<Num(shoreX), shoreDepthY>>],
      [op |-> "L", to |-> <<Num(shoreX + 50), Sub(shoreDepthY, Num(20))>>],
      [op |-> "L", to |-> <<Num(width), Sub(shoreDepthY, Num(20))>>],
      [op |-> "L", to |-> <<Num(width), Num(height)>>],
      [op |-> "L", to |-> <<Num(0), Num(height)>>],
      [op |-> "Z"]>>

\* The commands given to seabedPath = d3.path() (lines 112-132).
seabedPath(slope, depth) ==
    <<[op |-> "M", to |-> <<Num(0), deepDepthY(depth)>>],
      [op |-> "L", to |-> <<shelfKneeX(slope), deepDepthY(depth)>>],
      [op |-> "Q", cp |-> <<cpX(slope), cpY(depth)>>,
                   to |-> <<Num(shoreX), shoreDepthY>>],
      [op |-> "L", to |-> <<Num(shoreX + 50), Sub(shoreDepthY, Num(20))>>],
      [op |-> "L", to |-> <<Num(width), Sub(shoreDepthY, Num(20))>>],
      [op |-> "L", to |-> <<Num(width), Num(height)>>],
      [op |-> "L", to |-> <<Num(0), Num(height)>>],
      [op |-> "Z"]>>

\* The segments a path draws: a line or a curve starts at the point the
\* command before it left the pen at, moveTo lifts the pen, closePath
\* returns to the point of the last moveTo.
RECURSIVE Segments(_, _, _)
Segments(cmds, at, start) ==
    IF cmds = <<>> THEN <<>>
    ELSE The({IF c.op = "M" THEN Segments(rest, c.to, c.to)
              ELSE IF c.op = "Z"
              THEN <<[op |-> "Z", from |-> at, to |-> start]>>
                       \o Segments(rest, start, start)
              ELSE IF c.op = "Q"
              THEN <<[op |-> "Q", from |-> at, cp |-> c.cp, to |-> c.to]>>
                       \o Segments(rest, c.to, start)
              ELSE <<[op |-> "L", from |-> at, to |-> c.to]>>
                       \o Segments(rest, c.to, start)
              : c \in {Head(cmds)}, rest \in {Tail(cmds)}})

\* The point of a quadratic curve at parameter u:
\* (1 - u)^2 from + 2 u (1 - u) cp + u^2 to.
CurvePoint(seg, u) ==
    LET v == Sub(Num(1), u)
        at(i) == Add(Add(Mul(Mul(v, v), seg.from[i]),
                         Mul(Mul(Num(2), Mul(u, v)), seg.cp[i])),
                     Mul(Mul(u, u), seg.to[i]))
    IN  <<at(1), at(2)>>

\* The curve is sampled at the parameters k / CurveGrid.
CurveGrid == 4

\* A table f computed once: comparing f makes TLC enumerate it, and the
\* enumerated table then answers every application.
Tabulated(f) == The({IF g = g THEN g ELSE g : g \in {f}})

\* Positions of the packet the height is sampled at, from x = 0 to shoreX.
ProbeXs == {0, 50, 100, 200, 300, 400, 480, 500, 520, 530, 540, 545, 548, 550}

\* The height part of calculateWavePosition, tabulated per slope and position.
HeightModel ==
    Tabulated([slope \in Slopes, x \in ProbeXs |->
        Shoaling(slope, Num(x))])

\* The height halved once a seawall height is recommended.
HeightAt_Sheltered(in, x) ==
    The({[currentDepthRatio |-> m.currentDepthRatio,
          greensLaw |-> m.greensLaw,
          shoalingFactor |-> m.shoalingFactor,
          currentHeight |->
              Scale(m.shoalingFactor,
                    IF in.recommendedHeight = <<>> THEN a
                    ELSE Mul(Rat(1, 2), a))]
         : m \in {HeightModel[in.slope, x]},
           a \in {waveAmp(in.intensity, in.visualGain)}})

\* const currentHeight = waveAmp * shoalingFactor; for a packet at x.
HeightAt(in, x) ==
    The({[currentDepthRatio |-> m.currentDepthRatio,
          greensLaw |-> m.greensLaw,
          shoalingFactor |-> m.shoalingFactor,
          currentHeight |-> Scale(m.shoalingFactor,
                                  waveAmp(in.intensity, in.visualGain))]
         : m \in {HeightModel[in.slope, x]}})

\* calculateWavePosition(t) at the progress values k / TGrid, tabulated per
\* slope and depth: the position, and the shoaling factor at that position.
WavePositions ==
    Tabulated([slope \in Slopes, depth \in SceneDepths, k \in 0 .. TGrid |->
        The({[currentX |-> x,
              shoalingFactor |-> Shoaling(slope, x).shoalingFactor]
             : x \in {currentX(slope, depth, Rat(k, TGrid))}})])

\* return { currentX, currentHeight };
calculateWavePosition(in, k) ==
    The({[currentX |-> p.currentX,
          shoalingFactor |-> p.shoalingFactor,
          currentHeight |-> Scale(p.shoalingFactor,
                                  waveAmp(in.intensity, in.visualGain))]
         : p \in {WavePositions[in.slope, in.depth, k]}})

\* The seabed drawn, tabulated per slope and depth: the segments of
\* seabedPath and the points of its curve at the parameters k / CurveGrid.
Seabeds ==
    Tabulated([slope \in Slopes, depth \in SceneDepths |->
        The({[segments |-> segments,
              curve |-> [k \in 0 .. CurveGrid |->
                           CurvePoint(segments[2], Rat(k, CurveGrid))]]
             : segments \in {Segments(seabedPath(slope, depth), <<>>, <<>>)}})])

\* const seawallPixelHeight = recommendedHeight && recommendedHeight > 0
\*     ? recommendedHeight * 5 : 30;   recommendedHeight is <<>> when undefined.
seawallPixelHeight(recommendedHeight) ==
    IF recommendedHeight # <<>> /\ recommendedHeight[1] > 0
    THEN recommendedHeight[1] * 5 ELSE 30

\* seawallGroup.append("rect"): x, y and height of the wall.
seawall(recommendedHeight) ==
    [x |-> shoreX,
     y |-> seaLevel - seawallPixelHeight(recommendedHeight),
     height |-> seawallPixelHeight(recommendedHeight)]

\* The effect body for the inputs in.
Draw(in) ==
    The({[in |-> in,
          run |-> run(in.slope),
          tension |-> tension(in.slope),
          shelfKneeX |-> shelfKneeX(in.slope),
          speedDeep |-> speedDeep(in.depth),
          deepDepthY |-> deepDepthY(in.depth),
          shoreDepthY |-> shoreDepthY,
          seabed |-> bed.segments,
          curve |-> bed.curve,
          heightAt |-> [x \in ProbeXs |-> HeightAt(in, x)],
          packet |-> [k \in 0 .. TGrid |-> calculateWavePosition(in, k)],
          seawall |-> seawall(in.recommendedHeight)]
         : bed \in {Seabeds[in.slope, in.depth]}})

\* The effect body tabulated over the inputs.
Scenes == Tabulated([in \in SceneInputs |-> Draw(in)])

SceneInit ==
    scene = Scenes[[slope |-> 5, intensity |-> 5, depth |-> 40,
                    visualGain |-> 10, recommendedHeight |-> <<>>]]

\* The dependencies of the effect (line 303) and the values each takes.
Dependencies ==
    [slope |-> Slopes, intensity |-> SceneIntensities, depth |-> SceneDepths,
     visualGain |-> SceneGains, recommendedHeight |-> SceneHeights]

\* The effect runs again because the dependency dep changed to v.
Redraw(dep, v) ==
    /\ v # scene.in[dep]
    /\ scene' = Scenes[[scene.in EXCEPT ![dep] = v]]
    /\ UNCHANGED <<modelVars, simVars, appVars>>

(***************************************************************************)
(* Specifications.                                                         *)
(***************************************************************************)
ModelInit ==
    /\ mSlope \in Slopes
    /\ mDepth \in Depths
    /\ mSamples = <<>>
    /\ SimInit
    /\ AppInit
    /\ SceneInit

ModelNext == \E t \in Progress : Tween(t)

ModelSpec == ModelInit /\ [][ModelNext]_vars

Init ==
    /\ mSlope = 1
    /\ mDepth = 10
    /\ mSamples = <<>>
    /\ SimInit
    /\ AppInit
    /\ SceneInit

Frame ==
    \/ \E env \in timers : SurfaceTick(env)
    \/ \E p \in paths : PacketStart(p)
    \/ \E p \in paths : PacketTick(p)
    \/ \E p \in paths : PacketEnd(p)
    \/ \E i \in 1 .. Len(roots) : RootStart(i)
    \/ \E i \in 1 .. Len(roots) : RootTick(i)

Next ==
    \/ \E p \in SimProps : Mount(p)
    \/ \E p \in SimProps : SetProps(p)
    \/ \E g \in SimGains : SetVisualGain(g)
    \/ Unmount
    \/ Frame

Spec == Init /\ [][Next]_vars

AppNext ==
    \/ \E v \in SliderSlopes : SetSlope(v)
    \/ \E v \in SliderIntensities : SetIntensity(v)
    \/ \E v \in SliderDepths : SetDepth(v)
    \/ ClearLocation
    \/ OpenMap
    \/ CloseMap
    \/ \E c \in Coords : MapClick(c)
    \/ \E i \in 1 .. Len(requests), r \in Responses : AnalysisDone(i, r)
    \/ Reselect
    \/ ConfirmSelection
    \/ DepthSync
    \/ Len(history) < MaxHistory /\ RunSimulation
    \/ \E a \in AnalysisResults, m \in MapResults : RunResolved(a, m)
    \/ RunRejected
    \/ \E i \in 1 .. Len(history) : handleRestoreRecord(i)
    \/ ClearHistory

AppSpec == Init /\ [][AppNext]_vars

\* The App with a longer history and fewer inputs: one position of the slope
\* slider, one sea location of the picker, service calls that succeed or
\* throw.
MaxRecords == 2

HistoryNext ==
    \/ \E v \in SliderSlopes \ {10} : SetSlope(v)
    \/ \E v \in SliderIntensities : SetIntensity(v)
    \/ ClearLocation
    \/ OpenMap
    \/ \E c \in Coords : MapClick(c)
    \/ \E i \in 1 .. Len(requests) :
           \E r \in {x \in Responses : x.locationName = "Shelf"} :
               AnalysisDone(i, r)
    \/ ConfirmSelection
    \/ DepthSync
    \/ Len(history) < MaxRecords /\ RunSimulation
    \/ \E a \in {x \in AnalysisResults : ~ErrorResult(x)} :
           \E m \in MapResults \ {<<>>} : RunResolved(a, m)
    \/ RunRejected
    \/ \E i \in 1 .. Len(history) : handleRestoreRecord(i)
    \/ ClearHistory

HistorySpec == Init /\ [][HistoryNext]_vars

\* The LocationPicker with two points of the map, under a host that only
\* opens it and receives the selection.
PickerCoords == {1, 2}

PickerNext ==
    \/ OpenMap
    \/ CloseMap
    \/ \E c \in PickerCoords : MapClick(c)
    \/ \E i \in 1 .. Len(requests), r \in Responses : AnalysisDone(i, r)
    \/ Reselect
    \/ ConfirmSelection
    \/ DepthSync

PickerSpec == Init /\ [][PickerNext]_vars

\* The two service calls of a run return or throw, and the continuation of
\* handleRunSimulation then runs; React runs a due effect after the commit.
RunSettles ==
    \/ \E a \in AnalysisResults, m \in MapResults : RunResolved(a, m)
    \/ RunRejected

AppLiveSpec == AppSpec /\ WF_vars(DepthSync) /\ SF_vars(RunSettles)

SceneNext ==
    \E dep \in DOMAIN Dependencies : \E v \in Dependencies[dep] : Redraw(dep, v)

SceneSpec == Init /\ [][SceneNext]_vars

\* d3 runs every callback of a running timer or transition in each
\* animation frame.
LiveSpec == Spec /\ WF_vars(Frame)

(***************************************************************************)
(* Claims about the propagation model, checked under ModelSpec.            *)
(***************************************************************************)
InDeepPhase(t) ==
    Less(currentVirtualTime(mSlope, mDepth, t), timeDeep(mSlope, mDepth))

InDeepOrKnee(t) ==
    Leq(currentVirtualTime(mSlope, mDepth, t), timeDeep(mSlope, mDepth))

\* C7: for every slope and depth the position at progress 0 is 0 and at
\* progress 1 is shoreX, a later progress never gives a smaller position,
\* and at virtual time timeDeep both branches give deepDist.
C7_PositionEndpointsMonotone ==
    /\ \A i \in 1 .. Len(mSamples) :
          /\ mSamples[i].t = Num(0) => mSamples[i].x = Num(0)
          /\ mSamples[i].t = Num(1) => mSamples[i].x = Num(shoreX)
    /\ Len(mSamples) = 2 => Leq(mSamples[1].x, mSamples[2].x)
    /\ deepPhaseX(mSlope, mDepth, timeDeep(mSlope, mDepth)) = deepDist(mSlope)
    /\ slopePhaseX(mSlope, mDepth, timeDeep(mSlope, mDepth)) = deepDist(mSlope)

\* A sample inside the deep phase followed by the sample at progress 1.
C7_Witness ==
    /\ Len(mSamples) = 2
    /\ Less(Num(0), mSamples[1].t)
    /\ InDeepPhase(mSamples[1].t)
    /\ mSamples[2].t = Num(1)
    /\ Less(mSamples[1].x, mSamples[2].x)
    /\ mSamples[2].x = Num(shoreX)

\* C8: the position before the clamp of line 180 lies in [0, shoreX], so
\* the clamp leaves it as it is.
C8_ClampNeverApplies ==
    \A i \in 1 .. Len(mSamples) :
        /\ Leq(Num(0), mSamples[i].raw)
        /\ Leq(mSamples[i].raw, Num(shoreX))
        /\ mSamples[i].x = mSamples[i].raw

\* The last sample of a packet: progress 1, in the shoaling phase, the
\* unclamped position exactly at the shore.
C8_Witness ==
    /\ mSamples # <<>>
    /\ mSamples[Len(mSamples)].t = Num(1)
    /\ ~InDeepPhase(Num(1))
    /\ mSamples[Len(mSamples)].raw = Num(shoreX)

\* Two progress values one increment dt apart, both in the shoaling phase.
SlopeIncrements(dt) ==
    {u \in Progress : /\ Leq(Add(u, dt), Num(1))
                      /\ ~InDeepPhase(u)}

\* C9: the deep-water speed exceeds the slope speed at every depth, and an
\* increment of progress inside the deep phase advances the packet farther
\* than the same increment inside the shoaling phase.
C9_DeepFasterThanSlope ==
    /\ Less(speedSlopeAvg, speedDeep(mDepth))
    /\ (Len(mSamples) = 2 /\ InDeepOrKnee(mSamples[2].t)) =>
          LET dt == Sub(mSamples[2].t, mSamples[1].t)
          IN  \A u \in SlopeIncrements(dt) :
                 Less(Sub(currentX(mSlope, mDepth, Add(u, dt)),
                          currentX(mSlope, mDepth, u)),
                      Sub(mSamples[2].x, mSamples[1].x))

\* Two samples in the deep phase, and an equal increment in the shoaling phase.
C9_Witness ==
    /\ Len(mSamples) = 2
    /\ InDeepOrKnee(mSamples[2].t)
    /\ SlopeIncrements(Sub(mSamples[2].t, mSamples[1].t)) # {}
    /\ mDepth = 10

\* C10 as stated: shelfKneeX strictly decreases as slope increases.
C10_KneeDecreasesWithSlope ==
    \A s2 \in Slopes :
        mSlope < s2 => Less(shelfKneeX(s2), shelfKneeX(mSlope))

\* C10 as amended: run strictly decreases as slope increases, so
\* shelfKneeX = shoreX - run strictly increases.
C10_KneeIncreasesWithSlope ==
    \A s2 \in Slopes :
        mSlope < s2 => /\ Less(run(s2), run(mSlope))
                       /\ Less(shelfKneeX(mSlope), shelfKneeX(s2))
                       /\ shelfKneeX(s2) = Sub(Num(shoreX), run(s2))

\* The gentlest profile sampled: its knee at x = 50, before every other knee.
C10_Witness ==
    /\ mSlope = 1
    /\ mSamples # <<>>
    /\ shelfKneeX(mSlope) = Num(50)
    /\ shelfKneeX(10) = Num(520)

(***************************************************************************)
(* Claims about the timers and transitions of WaveSimulation, checked      *)
(* under Spec (C4 under LiveSpec).                                         *)
(***************************************************************************)
\* The captured values of every closure d3 can still call.
LiveEnvs == timers \cup {p.env : p \in {q \in paths : q.state # "none"}}

\* The captured values every drawn packet was computed from.
DrawnEnvs == {p.env : p \in {q \in paths : q.d # <<>>}}

\* C1: the surface timers and packet transitions that are live, and the
\* packets that are drawn, all come from one set of input values, which is
\* the current one while the component is mounted.
C1_OneGeneration ==
    /\ \A e1, e2 \in LiveEnvs \cup DrawnEnvs : e1 = e2
    /\ mounted => LiveEnvs \cup DrawnEnvs \subseteq {CurrentEnv}
    /\ ~mounted => LiveEnvs = {}

\* After a change of visualGain (30 is never the value at mount): the timer
\* and a packet past its first frame, both of the new run.
C1_Witness ==
    /\ mounted
    /\ visualGain = 30
    /\ timers = {CurrentEnv}
    /\ surface # <<>>
    /\ \E p \in paths : p.state = "running" /\ p.k >= 1 /\ p.env = CurrentEnv

\* C2 as stated: once the cleanup has run on unmount, nothing the effect
\* run created remains scheduled: no surface timer, no packet transition,
\* and no transition of d3.transition() on the document element.
C2_NothingLeftAfterCleanup ==
    ~mounted => /\ timers = {}
                /\ \A p \in paths : p.state = "none"
                /\ roots = <<>>

\* A change of slope, intensity, depth or visualGain while mounted.
InputChange ==
    /\ mounted
    /\ mounted'
    /\ \/ props'.slope # props.slope
       \/ props'.intensity # props.intensity
       \/ props'.depth # props.depth
       \/ visualGain' # visualGain

\* What every path of the svg shows was computed from the current inputs.
DrawnFromCurrentInputs ==
    mounted =>
       /\ timers = {CurrentEnv}
       /\ surface # <<>> => surface[1] = amp(props.intensity)
       /\ \A p \in paths :
             /\ p.env = CurrentEnv
             /\ p.d # <<>> => p.d[1] = PacketShape(CurrentEnv, p.k)

\* C3: a change of slope, intensity, depth or visualGain restarts the
\* surface timer and the packet loop (the packet in flight is dropped and a
\* new one is scheduled at progress 0), and whatever is computed afterwards
\* uses the new values.
C3_RestartOnInputChange ==
    /\ [][InputChange =>
            /\ timers' = {CurrentEnv'}
            /\ surface' = <<>>
            /\ paths' = {NewPath(CurrentEnv', TRUE)}]_vars
    /\ []DrawnFromCurrentInputs

\* Right after a change of visualGain: the new packet is scheduled, nothing
\* is drawn yet, and the transition of the previous packet on the document
\* element is still there.
C3_Witness ==
    /\ mounted
    /\ visualGain = 30
    /\ timers = {CurrentEnv}
    /\ surface = <<>>
    /\ paths = {NewPath(CurrentEnv, TRUE)}
    /\ Len(roots) >= 2

\* The packet in its last frame is replaced while the inputs stay.
PacketCompletes ==
    /\ mounted
    /\ UNCHANGED <<mounted, props, visualGain>>
    /\ \E p \in paths : p.state = "running" /\ p.k + 1 = PacketFrames
                           /\ p \notin paths'

\* C4: while mounted the wave group holds exactly one packet path; a packet
\* reaching progress 1 is replaced in the same step by one new packet at
\* progress 0; and if the component stays mounted with the same inputs,
\* packets are spawned and completed again and again.
C4_PacketLoop ==
    /\ [](mounted => Cardinality({p \in paths : p.attached}) = 1)
    /\ [][PacketCompletes => paths' = {NewPath(CurrentEnv, TRUE)}]_vars
    /\ (<>[]mounted /\ <>[][UNCHANGED <<props, visualGain>>]_vars) =>
          /\ []<>(\E p \in paths : p.state = "scheduled")
          /\ []<>(\E p \in paths : p.state = "running"
                                     /\ p.k + 1 = PacketFrames)

\* A second packet of the same run: the transition of the first one is
\* still on the document element when the next is scheduled.
C4_Witness ==
    /\ mounted
    /\ paths = {NewPath(CurrentEnv, TRUE)}
    /\ Len(roots) >= 2
    /\ roots[1].state = "running"
    /\ roots[1].k + 1 = PacketFrames

(***************************************************************************)
(* Claims about the host App, checked under AppSpec.                       *)
(***************************************************************************)
\* C5 as stated: the slope and the intensity the App passes to
\* WaveSimulation are integers of 1 .. 10 in every state.
C5_SlopeIntensityInRange ==
    /\ appSlope \in 1 .. 10
    /\ appIntensity \in 1 .. 10

\* The depths of the range at which speedDeep is positive and timeDeep is a
\* positive number at every slope of the slider.
FiniteTimeDepths ==
    {d \in 10 .. 80 : /\ Sign(speedDeep(d)) > 0
                      /\ \A s \in Slopes : Sign(timeDeep(s, d)) > 0}

\* C6: the depth the App passes to WaveSimulation lies in 10 .. 80 in every
\* state, so speedDeep is positive and timeDeep is a positive (finite)
\* number at every slope of the slider.
C6_DepthInRange ==
    /\ appDepth \in 10 .. 80
    /\ appDepth \in FiniteTimeDepths
    /\ FiniteTimeDepths = 10 .. 80

\* A location without depth (depthMeters 0) was confirmed and the depth-sync
\* effect has run: the depth is the lower end of the range.
C6_Witness ==
    /\ selectedLocation # <<>>
    /\ selectedLocation[1].depthMeters = 0
    /\ ~depthSyncPending
    /\ appDepth = 10

(***************************************************************************)
(* Claims about what an effect run computes, checked under SceneSpec.      *)
(***************************************************************************)
\* C11: run is 500 at slope 1 and 30 at slope 10 and strictly decreasing in
\* slope; tension is 0.2 at slope 1 and 0.9 at slope 10 and strictly
\* increasing in slope; a run of the effect for a change of depth,
\* intensity or visualGain computes the run and tension it had.
C11_ProfileFromSlopeOnly ==
    /\ [](/\ scene.in.slope = 1 =>
               scene.run = Num(500) /\ scene.tension = Rat(2, 10)
          /\ scene.in.slope = 10 =>
               scene.run = Num(30) /\ scene.tension = Rat(9, 10))
    /\ [][/\ scene'.in.slope > scene.in.slope =>
               /\ Less(scene'.run, scene.run)
               /\ Less(scene.tension, scene'.tension)
          /\ scene'.in.slope = scene.in.slope =>
               /\ scene'.run = scene.run
               /\ scene'.tension = scene.tension]_vars

\* The steepest slope drawn at a depth, an intensity and a gain that are
\* not those of the first run.
C11_Witness ==
    /\ scene.in.slope = 10
    /\ scene.in.depth = 80
    /\ scene.in.intensity = 10
    /\ scene.in.visualGain = 30
    /\ scene.run = Num(30)


(***************************************************************************)
(* C12.  For fixed intensity, visualGain and depth, at every position past *)
(* the shelf knee of both profiles (up to shoreX) the wave height computed *)
(* with slope 2 is strictly greater than the one computed with slope 9.    *)
(* The effect re-run that changes the slope between 2 and 9 leaves the     *)
(* other inputs alone, so the two scenes of such a step are compared.      *)
(***************************************************************************)
PastBothKnees(x) ==
    /\ Less(shelfKneeX(2), Num(x))
    /\ Less(shelfKneeX(9), Num(x))
    /\ x <= shoreX

\* TRUE only when every value enclosed by u is below every value of v.
Under(u, v) == Less(u.hi, v.lo)

C12_GentleHigherThanSteep ==
    [][\A x \in ProbeXs :
          PastBothKnees(x) =>
              /\ (scene.in.slope = 9 /\ scene'.in.slope = 2) =>
                     Under(scene.heightAt[x].currentHeight,
                           scene'.heightAt[x].currentHeight)
              /\ (scene.in.slope = 2 /\ scene'.in.slope = 9) =>
                     Under(scene'.heightAt[x].currentHeight,
                           scene.heightAt[x].currentHeight)]_vars

\* Slope 2 at the largest amplitude, the packet between the knee of slope 9
\* and the shore already amplified above its base amplitude.
C12_Witness ==
    /\ scene.in.slope = 2 /\ scene.in.intensity = 10 /\ scene.in.visualGain = 30
    /\ PastBothKnees(500)
    /\ Less(waveAmp(10, 30), scene.heightAt[500].currentHeight.lo)


(***************************************************************************)
(* C13.  The steep-slope correction applies exactly when slope > 6: for    *)
(* slope 1..6 the shoaling factor is the uncorrected Green's-law value,    *)
(* for slope 7, 8, 9, 10 it is that value times 0.85, 0.70, 0.55, 0.40;    *)
(* at slope 10 and maximum progress (x = shoreX, depth ratio 0.1) it is    *)
(* 40% of the uncorrected value.                                           *)
(***************************************************************************)
Correction ==
    [slope \in Slopes |->
        IF slope = 7 THEN Rat(85, 100) ELSE IF slope = 8 THEN Rat(70, 100)
        ELSE IF slope = 9 THEN Rat(55, 100) ELSE IF slope = 10 THEN Rat(40, 100)
        ELSE Num(1)]

C13_SteepCorrection ==
    /\ \A x \in ProbeXs :
          scene.heightAt[x].shoalingFactor =
              Scale(scene.heightAt[x].greensLaw, Correction[scene.in.slope])
    /\ scene.in.slope <= 6 =>
          \A x \in ProbeXs :
              scene.heightAt[x].shoalingFactor = scene.heightAt[x].greensLaw
    /\ scene.in.slope = 10 =>
          /\ scene.heightAt[shoreX].currentDepthRatio = Exact(Rat(1, 10))
          /\ scene.heightAt[shoreX].shoalingFactor =
                 Scale(scene.heightAt[shoreX].greensLaw, Rat(40, 100))

\* Slope 10 at the shore: the uncorrected factor is above 1.7 (10^0.25 is
\* about 1.778) and the corrected one below 0.72.
C13_Witness ==
    /\ scene.in.slope = 10
    /\ Less(Rat(17, 10), scene.heightAt[shoreX].greensLaw.lo)
    /\ Less(scene.heightAt[shoreX].shoalingFactor.hi, Rat(72, 100))


(***************************************************************************)
(* C14.  For every slope and every position x in [0, shoreX] the depth     *)
(* ratio of the height model lies in [0.1, 1]: it is 1 for x <= shelfKneeX,*)
(* non-increasing in x, and floored at 0.1, which it reaches at x = shoreX;*)
(* so 1 / depthRatio is at most 10 and the division is never by zero.      *)
(***************************************************************************)
DepthRatioAt(x) == scene.heightAt[x].currentDepthRatio

C14_DepthRatioInRange ==
    /\ \A x \in ProbeXs :
          /\ Leq(Rat(1, 10), DepthRatioAt(x).lo)
          /\ Leq(DepthRatioAt(x).hi, Num(1))
          /\ Leq(Num(x), scene.shelfKneeX) => DepthRatioAt(x) = Exact(Num(1))
          /\ x = shoreX => DepthRatioAt(x) = Exact(Rat(1, 10))
          /\ Less(Num(0), DepthRatioAt(x).lo)
          /\ Leq(Inv(DepthRatioAt(x).lo), Num(10))
    /\ \A x1, x2 \in ProbeXs :
          x1 < x2 => Leq(DepthRatioAt(x2).hi, DepthRatioAt(x1).lo)

\* Slope 1: the ratio is 1 on the deep floor, strictly between 0.1 and 1 on
\* the slope, and on its floor before the shore is reached.
C14_Witness ==
    /\ scene.in.slope = 1
    /\ DepthRatioAt(50) = Exact(Num(1))
    /\ Less(Rat(1, 10), DepthRatioAt(500).lo)
    /\ Less(DepthRatioAt(500).hi, Num(1))
    /\ DepthRatioAt(520) = Exact(Rat(1, 10))


(***************************************************************************)
(* C15.  speedDeep is 0.6 * sqrt(depth / 40) and does not depend on slope, *)
(* intensity or visualGain: it is 0.6 at depth 40, strictly increasing in  *)
(* depth, and speedDeep(10) / speedDeep(80) is sqrt(1 / 8), about 0.354,   *)
(* whatever the slope.  Speeds are positive, so two of them are compared   *)
(* by their squares.                                                       *)
(***************************************************************************)
C15_SpeedDeepFromDepthOnly ==
    /\ [](/\ scene.speedDeep = Mul(Rat(6, 10), Sqrt(Rat(scene.in.depth, 40)))
          /\ Less(Num(0), scene.speedDeep)
          /\ scene.in.depth = 40 => scene.speedDeep = Rat(6, 10))
    /\ [][/\ scene'.in.depth = scene.in.depth =>
                 scene'.speedDeep = scene.speedDeep
          /\ scene'.in.depth > scene.in.depth =>
                 Less(Mul(scene.speedDeep, scene.speedDeep),
                      Mul(scene'.speedDeep, scene'.speedDeep))
          /\ (scene.in.depth = 80 /\ scene'.in.depth = 10) =>
                 /\ Div(scene'.speedDeep, scene.speedDeep) = Sqrt(Rat(1, 8))
                 /\ Less(Rat(353, 1000), Div(scene'.speedDeep, scene.speedDeep))
                 /\ Less(Div(scene'.speedDeep, scene.speedDeep), Rat(355, 1000))]_vars

\* Depth 80 on a profile and with an amplitude other than the initial ones.
C15_Witness ==
    /\ scene.in.depth = 80 /\ scene.in.slope = 10
    /\ scene.in.intensity = 1 /\ scene.in.visualGain = 5
    /\ scene.speedDeep = Mul(Rat(6, 10), Sqrt(Num(2)))


(***************************************************************************)
(* C16.  For every slope and depth the drawn seabed is continuous at       *)
(* x = shelfKneeX and at x = shoreX: the flat segment ends at              *)
(* (shelfKneeX, deepDepthY), where the quadratic curve starts, and the     *)
(* curve ends at (shoreX, seaLevel), where the land segment starts.        *)
(***************************************************************************)
C16_SeabedContinuous ==
    /\ scene.seabed[1] = [op |-> "L", from |-> <<Num(0), scene.deepDepthY>>,
                          to |-> <<scene.shelfKneeX, scene.deepDepthY>>]
    /\ scene.seabed[2].op = "Q"
    /\ scene.seabed[2].from = scene.seabed[1].to
    /\ scene.seabed[2].to = <<Num(shoreX), Num(seaLevel)>>
    /\ scene.seabed[3].op = "L"
    /\ scene.seabed[3].from = scene.seabed[2].to

\* The shortest run under the deepest floor.
C16_Witness ==
    /\ scene.in.slope = 10 /\ scene.in.depth = 80
    /\ scene.seabed[2].from = <<Num(520), Num(295)>>
    /\ scene.seabed[3].from = <<Num(550), Num(200)>>


(***************************************************************************)
(* C17.  Along the seabed from the deep end (x = 0) to the shore           *)
(* (x = shoreX) the y coordinate of the seabed is monotonic with no        *)
(* oscillation, and the curve's x coordinate is non-decreasing in the      *)
(* curve parameter.  The y axis of the surface points down and the seabed  *)
(* rises from deepDepthY to seaLevel: y is non-increasing.  The statement  *)
(* with y non-decreasing is C17_SeabedYNonDecreasing.                      *)
(***************************************************************************)
\* The seabed from x = 0 to the shore: the flat floor, then the curve.
SeabedPoints ==
    <<scene.seabed[1].from, scene.seabed[1].to>>
        \o [k \in 1 .. CurveGrid + 1 |-> scene.curve[k - 1]]

XNonDecreasing ==
    \A i \in 1 .. Len(SeabedPoints) - 1 :
        Leq(SeabedPoints[i][1], SeabedPoints[i + 1][1])

C17_SeabedYNonDecreasing ==
    /\ \A i \in 1 .. Len(SeabedPoints) - 1 :
          Leq(SeabedPoints[i][2], SeabedPoints[i + 1][2])
    /\ XNonDecreasing

C17_SeabedYNonIncreasing ==
    /\ \A i \in 1 .. Len(SeabedPoints) - 1 :
          Leq(SeabedPoints[i + 1][2], SeabedPoints[i][2])
    /\ \A k \in 0 .. CurveGrid - 1 :
          Less(scene.curve[k + 1][2], scene.curve[k][2])
    /\ SeabedPoints[1] = <<Num(0), scene.deepDepthY>>
    /\ SeabedPoints[Len(SeabedPoints)] = <<Num(shoreX), Num(seaLevel)>>
    /\ XNonDecreasing

\* A steep profile under the deepest floor: the curve has left the floor
\* depth and is still below the sea level half way.
C17_Witness ==
    /\ scene.in.slope = 9 /\ scene.in.depth = 80
    /\ Less(scene.curve[2][2], scene.deepDepthY)
    /\ Less(Num(seaLevel), scene.curve[2][2])
    /\ Less(scene.shelfKneeX, scene.curve[2][1])

(***************************************************************************)
(* C18.  The depth-to-pixel mapping is linear from 30 px at depth 10 to    *)
(* 95 px at depth 80 and saturates outside (30 below 10, 95 above 80), so  *)
(* deepDepthY lies in [230, 295], strictly below the sea-level line and    *)
(* inside the 300-unit surface; the shore depth is exactly the sea level.  *)
(***************************************************************************)
C18_DepthScaleClamped ==
    /\ scene.in.depth \in 10 .. 80 =>
          scene.deepDepthY =
              Add(Num(seaLevel + 30),
                  Mul(Num(scene.in.depth - 10), Rat(95 - 30, 80 - 10)))
    /\ scene.in.depth < 10 => scene.deepDepthY = Num(seaLevel + 30)
    /\ scene.in.depth > 80 => scene.deepDepthY = Num(seaLevel + 95)
    /\ Leq(Num(230), scene.deepDepthY) /\ Leq(scene.deepDepthY, Num(295))
    /\ Less(Num(seaLevel), scene.deepDepthY)
    /\ Less(scene.deepDepthY, Num(height))
    /\ scene.shoreDepthY = Num(200)

\* A depth over the domain drawn at the deepest floor.
C18_Witness ==
    /\ scene.in.depth = 100
    /\ scene.deepDepthY = Num(295)
    /\ scene.seabed[1].to[2] = Num(295)


(***************************************************************************)
(* C19.  visualGain affects only the visual amplitude, never the timing:   *)
(* for fixed slope, intensity and depth and any progress t the position    *)
(* returned for t is the same for every visualGain, and the height is      *)
(* intensity * 3 * visualGain times the shoaling factor, so proportional   *)
(* to visualGain.  visualGain is held in tenths.                           *)
(***************************************************************************)
C19_GainScalesHeightOnly ==
    /\ [](\A k \in 0 .. TGrid :
             scene.packet[k].currentHeight =
                 Scale(scene.packet[k].shoalingFactor,
                       Mul(Num(scene.in.intensity * 3),
                           Rat(scene.in.visualGain, 10))))
    /\ [][(/\ scene'.in.visualGain # scene.in.visualGain
           /\ scene'.in.slope = scene.in.slope
           /\ scene'.in.intensity = scene.in.intensity
           /\ scene'.in.depth = scene.in.depth) =>
              \A k \in 0 .. TGrid :
                  /\ scene'.packet[k].currentX = scene.packet[k].currentX
                  /\ scene'.packet[k].shoalingFactor =
                         scene.packet[k].shoalingFactor
                  /\ Scale(scene'.packet[k].currentHeight,
                           Num(scene.in.visualGain)) =
                         Scale(scene.packet[k].currentHeight,
                               Num(scene'.in.visualGain))]_vars

\* The largest gain, the packet on the slope and amplified there.
C19_Witness ==
    /\ scene.in.visualGain = 30 /\ scene.in.depth = 80 /\ scene.in.slope = 2
    /\ Less(scene.shelfKneeX, scene.packet[2].currentX)
    /\ Less(waveAmp(scene.in.intensity, 30), scene.packet[2].currentHeight.lo)


(***************************************************************************)
(* C20.  A change of recommendedHeight affects only the seawall overlay:   *)
(* the seabed profile, the propagation schedule, and the position and the  *)
(* height of the wave packet at each progress are what they would be had   *)
(* recommendedHeight not changed.  The effect runs again on the change     *)
(* (recommendedHeight is a dependency); the two runs are compared.         *)
(***************************************************************************)
Physics(sc) ==
    <<sc.run, sc.tension, sc.shelfKneeX, sc.speedDeep, sc.deepDepthY,
      sc.shoreDepthY, sc.seabed, sc.curve, sc.heightAt, sc.packet>>

C21_NoRecordOnFailure ==
    [][(/\ runCall # <<>>
        /\ runCall' = <<>>
        /\ analysisResult' # <<>>
        /\ ErrorResult(analysisResult'[1])) => history' = history]_vars

(***************************************************************************)
(* C22 as stated: the seawall is drawn at 1 meter = 4 pixels.  For a       *)
(* recommendedHeight h > 0 the rectangle is 4 * h pixels high with its top *)
(* at seaLevel - 4 * h; otherwise it has the default height 30.  Checked   *)
(* under SceneSpec.                                                        *)
(***************************************************************************)
C22_SeawallFourPixelsPerMeter ==
    LET h == scene.in.recommendedHeight
    IN  IF h # <<>> /\ h[1] > 0
        THEN /\ scene.seawall.height = 4 * h[1]
             /\ scene.seawall.y = seaLevel - 4 * h[1]
        ELSE /\ scene.seawall.height = 30
             /\ scene.seawall.y = seaLevel - 30

(***************************************************************************)
(* C23.  At most one analysis run is in flight: a run starts only while    *)
(* isAnalyzing is false (the button is disabled otherwise) and isAnalyzing *)
(* is true exactly while a run is in flight.  While isAnalyzing is true    *)
(* analysisResult is null and locations is empty.  Every run ends the      *)
(* analyzing state, whatever the two service calls produce: isAnalyzing    *)
(* leads to not isAnalyzing.  Checked under AppLiveSpec.                   *)
(***************************************************************************)
C23_OneRunThatEnds ==
    /\ [](isAnalyzing <=> runCall # <<>>)
    /\ [](isAnalyzing => analysisResult = <<>> /\ locations = <<>>)
    /\ [][(runCall' # <<>> /\ runCall' # runCall) =>
              (~isAnalyzing /\ runCall = <<>>)]_vars
    /\ (isAnalyzing ~> ~isAnalyzing)

\* A run has ended whose analysis call and whose maps call both failed
\* internally.
C23_Witness ==
    /\ ~isAnalyzing
    /\ runCall = <<>>
    /\ analysisResult # <<>>
    /\ ErrorResult(analysisResult[1])
    /\ locations = <<>>

RestoreFrame ==
    [][\A i \in 1 .. Len(history) :
          handleRestoreRecord(i) =>
              /\ appSlope' = history[i].params.slope
              /\ appIntensity' = history[i].params.intensity
              /\ appDepth' = history[i].params.depth
              /\ selectedLocation' = <<>>
              /\ ~depthSyncPending'
              /\ history' = history
              /\ analysisResult' = analysisResult
              /\ locations' = locations
              /\ isAnalyzing' = isAnalyzing]_vars

\* The newest record is the record of the latest run, which has completed.
JustCompleted ==
    /\ ~isAnalyzing
    /\ analysisResult # <<>>
    /\ history # <<>>
    /\ history[1].result.recommendedHeight =
           analysisResult[1].recommendedSeawallHeight

\* Restoring the newest record would change nothing.
RestoreChangesNothing ==
    history[1].params =
        [slope |-> appSlope, intensity |-> appIntensity, depth |-> appDepth]

\* C25 as stated: the frame of restore, and restoring the record of the run
\* just completed leaves slope, intensity and depth unchanged whenever no
\* slider has been moved since.
C25_RestoreAfterNoSlider ==
    /\ RestoreFrame
    /\ []((JustCompleted /\ changedSinceRun # "slider") =>
              RestoreChangesNothing)

\* C25: the frame of restore, and restoring the record of the run just
\* completed leaves slope, intensity and depth unchanged whenever nothing
\* has set them since the run was started: no slider moved, no location
\* selected or cleared, no record restored.
C25_RestoreAfterNoChange ==
    /\ RestoreFrame
    /\ []((JustCompleted /\ changedSinceRun = "none") =>
              RestoreChangesNothing)

\* The record of a run at the location "Shelf" has been restored over other
\* values: the depth 10 of that location without a selected location.
C25_Witness ==
    /\ JustCompleted
    /\ Len(history) = 2
    /\ history[2].locationName = "Shelf"
    /\ history[2].params.depth = 10
    /\ history[1].params.depth = 40
    /\ selectedLocation = <<>>
    /\ appDepth = 10
    /\ changedSinceRun = "other"

(***************************************************************************)
(* C26.  Whenever a location is selected and the depth-sync effect has     *)
(* run, slope is the location's slopeScore and depth is its depthMeters    *)
(* clamped to 10 .. 80.  A step that changes slope or depth while a        *)
(* location is selected and synced also clears or replaces the location;   *)
(* the depth slider acts only without a selected location; the clear       *)
(* button sets slope to 5 and depth to 40.  Checked under AppSpec.         *)
(***************************************************************************)
Synced ==
    LET d == selectedLocation[1].depthMeters
    IN  /\ appSlope = selectedLocation[1].slopeScore
        /\ appDepth = IF d < 10 THEN 10 ELSE IF d > 80 THEN 80 ELSE d

C26_LocationSync ==
    /\ []((selectedLocation # <<>> /\ ~depthSyncPending) => Synced)
    /\ [][(/\ selectedLocation # <<>>
           /\ ~depthSyncPending
           /\ selectedLocation' = selectedLocation) =>
              (appSlope' = appSlope /\ appDepth' = appDepth)]_vars
    /\ [][(\E v \in SliderDepths : SetDepth(v)) =>
              selectedLocation = <<>>]_vars
    /\ [][ClearLocation =>
              /\ selectedLocation' = <<>>
              /\ appSlope' = 5
              /\ appDepth' = 40]_vars

\* The location "Trench" (slopeScore 12, depthMeters 200) is selected and
\* synced after the sliders had been moved to other values.
C26_Witness ==
    /\ selectedLocation # <<>>
    /\ selectedLocation[1].name = "Trench"
    /\ ~depthSyncPending
    /\ appSlope = 12
    /\ appDepth = 80
    /\ changedSinceRun = "slider"

(***************************************************************************)
(* Claims about the LocationPicker, checked under PickerSpec.              *)
(***************************************************************************)
\* The answer to request i is null or a land location.
Rejected(i, response) ==
    LET data == analyzeCoordinates(requests[i], requests[i], response)
    IN  data = <<>> \/ data[1].isLand

\* C27: under any interleaving of map clicks, answers, re-select and
\* confirm, the location the picker holds and the location it hands to the
\* host are sea locations; confirm hands over the analysed location the
\* picker holds; an answer that is null or a land location sets an error
\* message and leaves analyzedLocation as it was.
C27_OnlySeaLocations ==
    /\ [](analyzedLocation # <<>> => ~analyzedLocation[1].isLand)
    /\ [](selectedLocation # <<>> => ~selectedLocation[1].isLand)
    /\ [][ConfirmSelection =>
              /\ analyzedLocation # <<>>
              /\ ~analyzedLocation[1].isLand
              /\ selectedLocation' = analyzedLocation]_vars
    /\ [][\A i \in 1 .. Len(requests), r \in Responses :
              (AnalysisDone(i, r) /\ Rejected(i, r)) =>
                  /\ errorMsg' # <<>>
                  /\ analyzedLocation' = analyzedLocation]_vars

\* The land answer of the second click has arrived after the sea answer of
\* the first: the error is set, the analysed sea location is still held and
\* can be confirmed.
C27_Witness ==
    /\ showMap
    /\ ~analyzing
    /\ requests = <<>>
    /\ marker = <<2>>
    /\ errorMsg = <<"land">>
    /\ analyzedLocation # <<>>
    /\ analyzedLocation[1].lat = 1
    /\ ENABLED ConfirmSelection

\* C28 as stated: under any interleaving of map clicks and answers,
\* analyzing is true whenever a request is in flight; once none is in
\* flight the analysed location shown has the coordinates of the marker,
\* those of the most recent click; an error message and an analysed
\* location are never shown together.
C28_ShowsLatestClick ==
    /\ requests # <<>> => analyzing
    /\ (requests = <<>> /\ ~analyzing /\ analyzedLocation # <<>>) =>
           analyzedLocation[1].lat = marker[1]
    /\ ~(~analyzing /\ errorMsg # <<>> /\ analyzedLocation # <<>>)

=============================================================================
